---- MODULE Spec2Model ----
(***************************************************************************)
(* Cherry-pick conflict detection and pull-request materialization of      *)
(* kinetic-workbench (internal/tools/github/client.go and the tool         *)
(* wrappers of CreateCherryPickTools).                                      *)
(*                                                                         *)
(* The host (GitHub) is modelled by origPR, conflicting, refs and pulls.    *)
(* Every tool invocation is a process whose position (pc) advances by one   *)
(* host API call per step; the local computation that follows a call up to  *)
(* the next call is part of the same step.  Every host call may fail.       *)
(***************************************************************************)
EXTENDS Integers, Sequences, FiniteSets, TLC

\* ------------------------------------------------------------------------
\* Bounds and input sets
\* ------------------------------------------------------------------------
MaxCalls == 2       \* tool invocations started in one behaviour
MaxLen == 3         \* longest commit list given to the commit filter
MaxParents == 2     \* largest number of parents of a commit
MaxClosed == 3      \* closed pull requests the host lists
PerPage == 2        \* entries on one page of the host's list (100 in the code)
MaxTicks == 1       \* seconds that pass while a listing runs

Procs == {1}                        \* callers of the tools
PRNumbers == {1}                    \* original pull requests on the host
Targets == {"rel-1", "rel-2"}       \* target branches
BaseBranchArgs == {"", "dev"}       \* base_branch argument as received
Pairs == PRNumbers \X Targets
HostErrs == {"unavailable"}         \* error text of a failed host call
Descriptors == {"", "dirty"}        \* MergeableState; "" is a nil pointer
NoErr == ""

FirstDelay == 3     \* seconds slept before the first read of the probe
SecondDelay == 2    \* seconds slept before the second read
DefaultDays == 7    \* lookback window when days <= 0
DaySeconds == 86400 \* one day of AddDate(0, 0, -days), in seconds
Epoch == 10 * DaySeconds            \* the clock when a behaviour starts
DaysArgs == {-1, 0, 1}              \* days argument as received

\* ------------------------------------------------------------------------
\* Strings built with fmt.Sprintf
\* ------------------------------------------------------------------------
HeadRefOf(n) == "feature-" \o ToString(n)

TestPRTitle(n, t) ==
    "[TEST] Conflict check for PR #" \o ToString(n) \o " cherry-pick to " \o t

CautionDetail(headRef) ==
    "Cannot check conflicts: original PR head branch '" \o headRef
        \o "' may have been deleted. Proceed with caution."

ConflictDetail(n, t) ==
    "PR #" \o ToString(n) \o " commits cannot be cleanly merged into " \o t

StateDetail(s) == "Mergeable state: " \o s

UnableDetail == "Unable to determine mergeability status - assuming conflicts exist"

ErrGetPR(n, e) == "failed to get PR #" \o ToString(n) \o ": " \o e
ErrNotMerged(n) == "PR #" \o ToString(n) \o " is not merged"
ErrGetCommits(e) == "failed to get PR commits: " \o e
ErrNoCommits(n) == "PR #" \o ToString(n) \o " has no commits to cherry-pick"
ErrNoHeadRef(n) == "PR #" \o ToString(n) \o " does not have a head ref"
ErrTestPRStatus(e) == "failed to get test PR status: " \o e
ErrCheckFailed(e) == "failed to check for conflicts: " \o e
ErrConflict(n, t, d) ==
    "cannot cherry-pick PR #" \o ToString(n) \o " to " \o t \o ": " \o d
\* a target-branch error that reads as a branch-creation error
ErrTargetBranchAsCreate(t, e) == "failed to create branch " \o t \o ": " \o e
ErrTargetBranch(t, e) == "failed to get target branch " \o t \o ": " \o e
ErrCreateBranch(b, e) == "failed to create branch " \o b \o ": " \o e
\* a creation error that drops what the host answered
ErrCreatePRGeneric(e) == "failed to create cherry-pick PR"
ErrCreatePR(e) == "failed to create cherry-pick PR: " \o e

DefaultBase(b) == IF b = "" THEN "main" ELSE b

\* ------------------------------------------------------------------------
\* Commit Filter
\* ------------------------------------------------------------------------
Commits == [sha : {"a", "b"}, parents : 0..MaxParents]

\* a filter that only drops commits without parents
RECURSIVE FilterCommitsKeepMerges(_)
FilterCommitsKeepMerges(commits) ==
    IF commits = <<>> THEN <<>>
    ELSE LET rest == FilterCommitsKeepMerges(Tail(commits))
         IN  IF Head(commits).parents >= 1
             THEN <<Head(commits)>> \o rest
             ELSE rest

\* the loop of GetPullRequestCommits: keep a commit iff it has one parent
RECURSIVE FilterCommits(_)
FilterCommits(commits) ==
    IF commits = <<>> THEN <<>>
    ELSE LET rest == FilterCommits(Tail(commits))
         IN  IF Head(commits).parents = 1
             THEN <<Head(commits)>> \o rest
             ELSE rest

CommitLists == UNION {[1..k -> Commits] : k \in 0..MaxLen}

\* commit lists of the original pull request in the pipeline runs
PRCommitLists ==
    { <<[sha |-> "a", parents |-> 2]>>,
      <<[sha |-> "a", parents |-> 2], [sha |-> "b", parents |-> 1]>> }

\* ------------------------------------------------------------------------
\* State
\* ------------------------------------------------------------------------
VARIABLES
    origPR,       \* host: number -> [merged, commits, hasHeadRef, headRef]
    conflicting,  \* host: <<head, base>> -> the merge engine's verdict
    refs,         \* host: branch name -> [sha, by, pair]
    pulls,        \* host: pull requests created through the API, in order
    inv,          \* proc -> the invocation it is running
    calls,        \* invocations started so far
    checked,      \* pairs for which check_cherry_pick_conflicts returned
    confirmed,    \* pairs the human has confirmed
    closedPRs,    \* host: closed pull requests in the order it lists them
    now           \* the clock, in seconds

vars == <<origPR, conflicting, refs, pulls, inv, calls, checked, confirmed,
          closedPRs, now>>

MaxOf(S) == CHOOSE x \in S : \A y \in S : y <= x

\* number of the i-th pull request created through the API
PullNumber(i) == MaxOf(DOMAIN origPR) + i
PullIndex(num) == num - MaxOf(DOMAIN origPR)

NoResult == [err |-> NoErr, hasConflicts |-> FALSE, details |-> <<>>,
             commits |-> 0, prNumber |-> 0, title |-> "", branch |-> "",
             prs |-> <<>>]

IdleInv ==
    [pc |-> "idle", cid |-> 0, op |-> "", prNumber |-> 0, targetBranch |-> "",
     baseBranch |-> "", headRef |-> "", prTitle |-> "",
     commits |-> <<>>, testPR |-> 0, hasConflicts |-> FALSE,
     conflictDetails |-> <<>>, checkErr |-> NoErr, targetSHA |-> "",
     createErr |-> NoErr, newRefSHA |-> "",
     reads |-> 0, closes |-> 0, mergeable |-> "", mergeableState |-> "",
     cancelled |-> FALSE, waited |-> 0, polls |-> 0,
     daysArg |-> 0, days |-> 0, page |-> 0, allPRs |-> <<>>, startedAt |-> 0,
     result |-> NoResult]

TipOf(branch) == "tip-" \o branch

Init ==
    /\ origPR \in [PRNumbers -> [merged : BOOLEAN, commits : PRCommitLists,
                                 hasHeadRef : BOOLEAN,
                                 headRef : {HeadRefOf(n) : n \in PRNumbers}]]
    /\ conflicting \in [{HeadRefOf(n) : n \in PRNumbers} \X Targets -> BOOLEAN]
    /\ \E headAlive \in BOOLEAN :
          refs = [b \in Targets \cup {"main", "dev"}
                        \cup (IF headAlive THEN {HeadRefOf(n) : n \in PRNumbers}
                              ELSE {})
                    |-> [sha |-> TipOf(b), by |-> 0, pair |-> <<0, "">>]]
    /\ pulls = <<>>
    /\ inv = [p \in Procs |-> IdleInv]
    /\ calls = 0
    /\ checked = {}
    /\ confirmed = {}
    /\ closedPRs = <<>>
    /\ now = Epoch

\* ------------------------------------------------------------------------
\* Names derived by the materializer
\* ------------------------------------------------------------------------
\* a branch name that differs from one invocation to the next
CherryPickBranchPerCall(n, t) ==
    "cherry-pick-" \o ToString(n) \o "-to-" \o t \o "-" \o ToString(calls)

CherryPickBranch(n, t) == "cherry-pick-" \o ToString(n) \o "-to-" \o t

CherryPickTitle(n, t, title) == "[" \o CherryPickBranch(n, t) \o "] " \o title

\* a merge test that lets every pull request through
NotMergedNever(n) == FALSE

\* pr.MergedAt == nil
NotMerged(n) == ~origPR[n].merged

\* ------------------------------------------------------------------------
\* Host rules
\* ------------------------------------------------------------------------
OrigTitle(n) == "Change " \o ToString(n)
OrigHeadRef(n) == IF origPR[n].hasHeadRef THEN origPR[n].headRef ELSE ""

OpenDuplicate(head, base) ==
    \E i \in DOMAIN pulls :
        pulls[i].state = "open" /\ pulls[i].head = head /\ pulls[i].base = base

\* errors PullRequests.Create can answer with; it can succeed iff the host
\* has no reason of its own to reject the request
CreatePullRejections(head, base) ==
    (IF head \notin DOMAIN refs \/ base \notin DOMAIN refs
        THEN {"invalid head or base"} ELSE {})
    \cup (IF OpenDuplicate(head, base)
        THEN {"a pull request already exists"} ELSE {})

CreateRefRejections(name) ==
    IF name \in DOMAIN refs THEN {"reference already exists"} ELSE {}

GetRefRejections(name) ==
    IF name \notin DOMAIN refs THEN {"not found"} ELSE {}

\* answers of a host call: NoErr (success) or an error text
Answers(rejections) ==
    HostErrs \cup (IF rejections = {} THEN {NoErr} ELSE rejections)

\* answers to a call made with the context of invocation r: a cancelled
\* context fails every call
CallAnswers(r, rejections) ==
    IF r.cancelled THEN {"context canceled"} ELSE Answers(rejections)

\* by and pair record the invocation that made the request
NewPull(title, head, base, r) ==
    [title |-> title, head |-> head, base |-> base, state |-> "open",
     by |-> r.cid, pair |-> <<r.prNumber, r.targetBranch>>]

\* a clean-up that closes the oldest pull request the calls made
ClosePullFirst(num) == [pulls EXCEPT ![1].state = "closed"]

ClosePull(num) == [pulls EXCEPT ![PullIndex(num)].state = "closed"]

\* the mergeable flag the host reports for a pull request: not yet computed
\* ("nil") or the merge engine's verdict for its head and base
MergeableAnswers(num) ==
    LET pl == pulls[PullIndex(num)]
    IN  {"nil", IF conflicting[<<pl.head, pl.base>>] THEN "false" ELSE "true"}

\* ------------------------------------------------------------------------
\* Return of CheckCherryPickConflicts to its caller
\* ------------------------------------------------------------------------
Fail(r, err) == [r EXCEPT !.pc = "done", !.result = [NoResult EXCEPT !.err = err]]

\* a conflict error that never quotes the prober
FirstDetailUnknown(details) == "Unknown conflicts"

FirstDetail(details) ==
    IF Len(details) > 0 THEN details[1] ELSE "Unknown conflicts"

\* a materializer that does not look at hasConflicts
AfterCheckIgnoreConflicts(r, hasConflicts, details, err) ==
    LET r1 == [r EXCEPT !.hasConflicts = hasConflicts,
                        !.conflictDetails = details, !.checkErr = err]
    IN  IF r.op = "check"
        THEN IF err # NoErr
             THEN [r1 EXCEPT !.pc = "done",
                             !.result = [NoResult EXCEPT !.err = err]]
             ELSE [r1 EXCEPT !.pc = "done",
                             !.result = [NoResult EXCEPT
                                           !.hasConflicts = hasConflicts,
                                           !.details = details,
                                           !.commits = Len(r.commits)]]
        ELSE IF err # NoErr
             THEN [r1 EXCEPT !.pc = "done",
                             !.result = [NoResult EXCEPT
                                           !.err = ErrCheckFailed(err)]]
             ELSE [r1 EXCEPT !.pc = "c_getref"]

AfterCheck(r, hasConflicts, details, err) ==
    LET r1 == [r EXCEPT !.hasConflicts = hasConflicts,
                        !.conflictDetails = details, !.checkErr = err]
    IN  IF r.op = "check"
        THEN IF err # NoErr
             THEN Fail(r1, err)
             ELSE [r1 EXCEPT !.pc = "done",
                             !.result = [NoResult EXCEPT
                                           !.hasConflicts = hasConflicts,
                                           !.details = details,
                                           !.commits = Len(r.commits)]]
        ELSE IF err # NoErr
             THEN Fail(r1, ErrCheckFailed(err))
             ELSE IF hasConflicts
                  THEN Fail(r1, ErrConflict(r.prNumber, r.targetBranch,
                                            FirstDetail(details)))
                  ELSE [r1 EXCEPT !.pc = "c_getref"]

\* one step of proc p ending in invocation record r
Step(p, r) ==
    /\ inv' = [inv EXCEPT ![p] = r]
    /\ checked' = IF r.pc = "done" /\ r.op = "check" /\ r.result.err = NoErr
                  THEN checked \cup {<<r.prNumber, r.targetBranch>>}
                  ELSE checked

\* ------------------------------------------------------------------------
\* The callers
\* ------------------------------------------------------------------------
StartCheck(p, n, t, b) ==
    /\ inv[p].pc = "idle"
    /\ calls < MaxCalls
    /\ calls' = calls + 1
    /\ Step(p, [IdleInv EXCEPT !.pc = "w_commits", !.cid = calls + 1,
                               !.op = "check", !.prNumber = n,
                               !.targetBranch = t,
                               !.baseBranch = DefaultBase(b)])
    /\ UNCHANGED <<closedPRs, now, origPR, conflicting, refs, pulls, confirmed>>

StartCreate(p, n, t, b) ==
    /\ inv[p].pc = "idle"
    /\ calls < MaxCalls
    /\ calls' = calls + 1
    /\ Step(p, [IdleInv EXCEPT !.pc = "c_getpr", !.cid = calls + 1,
                               !.op = "create", !.prNumber = n,
                               !.targetBranch = t,
                               !.baseBranch = DefaultBase(b)])
    /\ UNCHANGED <<closedPRs, now, origPR, conflicting, refs, pulls, confirmed>>

Confirm(n, t) ==
    /\ <<n, t>> \notin confirmed
    /\ confirmed' = confirmed \cup {<<n, t>>}
    /\ UNCHANGED <<closedPRs, now, origPR, conflicting, refs, pulls, inv, calls, checked>>

Finish(p) ==
    /\ inv[p].pc = "done"
    /\ Step(p, IdleInv)
    /\ UNCHANGED <<closedPRs, now, origPR, conflicting, refs, pulls, calls, confirmed>>

\* ------------------------------------------------------------------------
\* check_cherry_pick_conflicts
\* ------------------------------------------------------------------------
WrapperCommits(p) ==
    LET r == inv[p] IN
    /\ r.pc = "w_commits"
    /\ \E e \in CallAnswers(r, {}) :
          Step(p, IF e # NoErr
                  THEN Fail(r, ErrGetCommits(e))
                  ELSE [r EXCEPT !.pc = "k_getpr",
                          !.commits = FilterCommits(origPR[r.prNumber].commits)])
    /\ UNCHANGED <<closedPRs, now, origPR, conflicting, refs, pulls, calls, confirmed>>

CheckGetPR(p) ==
    LET r == inv[p] IN
    /\ r.pc = "k_getpr"
    /\ \E e \in CallAnswers(r, {}) :
          Step(p, IF e # NoErr
                  THEN AfterCheck(r, FALSE, <<>>,
                                  ErrGetPR(r.prNumber, ErrGetPR(r.prNumber, e)))
                  ELSE IF NotMerged(r.prNumber)
                  THEN AfterCheck(r, FALSE, <<>>, ErrNotMerged(r.prNumber))
                  ELSE [r EXCEPT !.pc = "k_commits",
                                 !.headRef = OrigHeadRef(r.prNumber)])
    /\ UNCHANGED <<closedPRs, now, origPR, conflicting, refs, pulls, calls, confirmed>>

\* a prober that looks at the head ref before the commit list
CheckGetCommitsHeadFirst(p) ==
    LET r == inv[p] IN
    /\ r.pc = "k_commits"
    /\ \E e \in CallAnswers(r, {}) :
          Step(p, IF e # NoErr
                  THEN AfterCheck(r, FALSE, <<>>, ErrGetCommits(ErrGetCommits(e)))
                  ELSE IF r.headRef = ""
                  THEN AfterCheck(r, FALSE, <<>>, ErrNoHeadRef(r.prNumber))
                  ELSE IF Len(FilterCommits(origPR[r.prNumber].commits)) = 0
                  THEN AfterCheck(r, FALSE, <<>>, ErrNoCommits(r.prNumber))
                  ELSE [r EXCEPT !.pc = "k_create"])
    /\ UNCHANGED <<closedPRs, now, origPR, conflicting, refs, pulls, calls,
                   confirmed>>

CheckGetCommits(p) ==
    LET r == inv[p] IN
    /\ r.pc = "k_commits"
    /\ \E e \in CallAnswers(r, {}) :
          Step(p, IF e # NoErr
                  THEN AfterCheck(r, FALSE, <<>>, ErrGetCommits(ErrGetCommits(e)))
                  ELSE IF Len(FilterCommits(origPR[r.prNumber].commits)) = 0
                  THEN AfterCheck(r, FALSE, <<>>, ErrNoCommits(r.prNumber))
                  ELSE IF r.headRef = ""
                  THEN AfterCheck(r, FALSE, <<>>, ErrNoHeadRef(r.prNumber))
                  ELSE [r EXCEPT !.pc = "k_create"])
    /\ UNCHANGED <<closedPRs, now, origPR, conflicting, refs, pulls, calls, confirmed>>

\* a prober that treats a failed probe creation as an error
CheckCreateProbeHardFail(p) ==
    LET r == inv[p] IN
    /\ r.pc = "k_create"
    /\ \E e \in CallAnswers(r, CreatePullRejections(r.headRef, r.targetBranch)) :
          IF e # NoErr
          THEN /\ Step(p, AfterCheck(r, FALSE, <<>>, e))
               /\ pulls' = pulls
          ELSE /\ pulls' = Append(pulls,
                               NewPull(TestPRTitle(r.prNumber, r.targetBranch),
                                       r.headRef, r.targetBranch, r))
               /\ Step(p, [r EXCEPT !.pc = "k_read1",
                                    !.testPR = PullNumber(Len(pulls) + 1)])
    /\ UNCHANGED <<closedPRs, now, origPR, conflicting, refs, calls, confirmed>>

CheckCreateProbe(p) ==
    LET r == inv[p] IN
    /\ r.pc = "k_create"
    /\ \E e \in CallAnswers(r, CreatePullRejections(r.headRef, r.targetBranch)) :
          IF e # NoErr
          THEN /\ Step(p, AfterCheck(r, FALSE, <<CautionDetail(r.headRef)>>, NoErr))
               /\ pulls' = pulls
          ELSE /\ pulls' = Append(pulls,
                               NewPull(TestPRTitle(r.prNumber, r.targetBranch),
                                       r.headRef, r.targetBranch, r))
               /\ Step(p, [r EXCEPT !.pc = "k_read1",
                                    !.testPR = PullNumber(Len(pulls) + 1)])
    /\ UNCHANGED <<closedPRs, now, origPR, conflicting, refs, calls, confirmed>>

\* time.Sleep, one second at a time; it does not look at the context
Wait(p) ==
    /\ \/ inv[p].pc = "k_read1" /\ inv[p].waited < FirstDelay
       \/ inv[p].pc = "k_read2" /\ inv[p].waited < SecondDelay
    /\ Step(p, [inv[p] EXCEPT !.waited = @ + 1])
    /\ UNCHANGED <<closedPRs, now, origPR, conflicting, refs, pulls, calls, confirmed>>

\* the caller's context is cancelled while the invocation runs
Cancel(p) ==
    /\ inv[p].pc \notin {"idle", "done"}
    /\ ~inv[p].cancelled
    /\ Step(p, [inv[p] EXCEPT !.cancelled = TRUE])
    /\ UNCHANGED <<closedPRs, now, origPR, conflicting, refs, pulls, calls, confirmed>>

\* an interpretation that never reports the mergeable state
InterpretNoState(r0, m, d) ==
    LET r == [r0 EXCEPT !.mergeable = m, !.mergeableState = d] IN
    IF m = "false"
    THEN [r EXCEPT !.pc = "k_close", !.hasConflicts = TRUE,
            !.conflictDetails =
                <<ConflictDetail(r.prNumber, r.targetBranch)>>]
    ELSE [r EXCEPT !.pc = "k_close"]

\* the interpretation of a mergeable flag that is not nil; mergeable and
\* mergeableState record what the host answered ("": no descriptor)
Interpret(r0, m, d) ==
    LET r == [r0 EXCEPT !.mergeable = m, !.mergeableState = d] IN
    IF m = "false"
    THEN [r EXCEPT !.pc = "k_close", !.hasConflicts = TRUE,
            !.conflictDetails =
                <<ConflictDetail(r.prNumber, r.targetBranch)>>
                \o (IF d # "" THEN <<StateDetail(d)>> ELSE <<>>)]
    ELSE [r EXCEPT !.pc = "k_close"]

\* a first poll that is always followed by the second
CheckRead1AlwaysTwice(p) ==
    LET r == [inv[p] EXCEPT !.waited = 0, !.polls = @ + 1] IN
    /\ r.pc = "k_read1"
    /\ inv[p].waited = FirstDelay
    /\ \E e \in CallAnswers(r, {}), m \in MergeableAnswers(r.testPR), d \in Descriptors :
          Step(p, IF e # NoErr
                  THEN [r EXCEPT !.pc = "k_closeErr",
                                 !.checkErr = ErrTestPRStatus(e)]
                  ELSE [r EXCEPT !.reads = @ + 1, !.pc = "k_read2",
                                 !.mergeable = m])
    /\ UNCHANGED <<closedPRs, now, origPR, conflicting, refs, pulls, calls, confirmed>>

CheckRead1(p) ==
    LET r == [inv[p] EXCEPT !.waited = 0, !.polls = @ + 1] IN
    /\ r.pc = "k_read1"
    /\ inv[p].waited = FirstDelay
    /\ \E e \in CallAnswers(r, {}), m \in MergeableAnswers(r.testPR), d \in Descriptors :
          Step(p, IF e # NoErr
                  THEN [r EXCEPT !.pc = "k_closeErr",
                                 !.checkErr = ErrTestPRStatus(e)]
                  ELSE LET r1 == [r EXCEPT !.reads = @ + 1]
                       IN  IF m = "nil"
                           THEN [r1 EXCEPT !.pc = "k_read2", !.mergeable = m]
                           ELSE Interpret(r1, m, d))
    /\ UNCHANGED <<closedPRs, now, origPR, conflicting, refs, pulls, calls, confirmed>>

\* a second poll that reports no conflicts when the flag stays unknown
CheckRead2FailOpen(p) ==
    LET r == [inv[p] EXCEPT !.waited = 0, !.polls = @ + 1] IN
    /\ r.pc = "k_read2"
    /\ inv[p].waited = SecondDelay
    /\ \E e \in CallAnswers(r, {}), m \in MergeableAnswers(r.testPR), d \in Descriptors :
          Step(p, IF e = NoErr /\ m # "nil"
                  THEN Interpret([r EXCEPT !.reads = @ + 1], m, d)
                  ELSE [r EXCEPT !.pc = "k_close",
                                 !.reads = IF e = NoErr THEN @ + 1 ELSE @,
                                 !.mergeable = "nil"])
    /\ UNCHANGED <<closedPRs, now, origPR, conflicting, refs, pulls, calls, confirmed>>

CheckRead2(p) ==
    LET r == [inv[p] EXCEPT !.waited = 0, !.polls = @ + 1] IN
    /\ r.pc = "k_read2"
    /\ inv[p].waited = SecondDelay
    /\ \E e \in CallAnswers(r, {}), m \in MergeableAnswers(r.testPR), d \in Descriptors :
          Step(p, IF e = NoErr /\ m # "nil"
                  THEN Interpret([r EXCEPT !.reads = @ + 1], m, d)
                  ELSE [r EXCEPT !.pc = "k_close",
                                 !.reads = IF e = NoErr THEN @ + 1 ELSE @,
                                 !.mergeable = "nil",
                                 !.hasConflicts = TRUE,
                                 !.conflictDetails = <<UnableDetail>>])
    /\ UNCHANGED <<closedPRs, now, origPR, conflicting, refs, pulls, calls, confirmed>>

\* an error path that returns without the clean-up
CheckCloseErrNoClose(p) ==
    LET r == inv[p] IN
    /\ r.pc = "k_closeErr"
    /\ pulls' = pulls
    /\ Step(p, AfterCheck(r, FALSE, <<>>, r.checkErr))
    /\ UNCHANGED <<closedPRs, now, origPR, conflicting, refs, calls, confirmed>>

CheckCloseErr(p) ==
    LET r == inv[p] IN
    /\ r.pc = "k_closeErr"
    /\ \E e \in CallAnswers(r, {}) :
          pulls' = IF e = NoErr THEN ClosePull(r.testPR) ELSE pulls
    /\ Step(p, AfterCheck([r EXCEPT !.closes = @ + 1], FALSE, <<>>, r.checkErr))
    /\ UNCHANGED <<closedPRs, now, origPR, conflicting, refs, calls, confirmed>>

\* a clean-up whose failure is returned to the caller
CheckCloseSurfaced(p) ==
    LET r == inv[p] IN
    /\ r.pc = "k_close"
    /\ \E e \in CallAnswers(r, {}) :
          /\ pulls' = IF e = NoErr THEN ClosePull(r.testPR) ELSE pulls
          /\ Step(p, AfterCheck([r EXCEPT !.closes = @ + 1],
                                r.hasConflicts, r.conflictDetails,
                                IF e = NoErr THEN NoErr
                                ELSE "failed to close test PR: " \o e))
    /\ UNCHANGED <<closedPRs, now, origPR, conflicting, refs, calls, confirmed>>

CheckClose(p) ==
    LET r == inv[p] IN
    /\ r.pc = "k_close"
    /\ \E e \in CallAnswers(r, {}) :
          pulls' = IF e = NoErr THEN ClosePull(r.testPR) ELSE pulls
    /\ Step(p, AfterCheck([r EXCEPT !.closes = @ + 1],
                          r.hasConflicts, r.conflictDetails, NoErr))
    /\ UNCHANGED <<closedPRs, now, origPR, conflicting, refs, calls, confirmed>>

\* ------------------------------------------------------------------------
\* list_merged_prs
\* ------------------------------------------------------------------------
ErrListMerged(e) == "failed to list merged PRs: " \o e

\* the page of the closed list the host answers a request for page k with,
\* and the NextPage of that answer (0: no further page)
HostPage(k) ==
    SubSeq(closedPRs, (k - 1) * PerPage + 1,
           IF k * PerPage < Len(closedPRs) THEN k * PerPage ELSE Len(closedPRs))

HostNextPage(k) == IF k * PerPage < Len(closedPRs) THEN k + 1 ELSE 0

\* the filter loop over one page: merged, and merged after the cutoff
RECURSIVE KeepMerged(_, _)
KeepMerged(prs, cutoff) ==
    IF prs = <<>> THEN <<>>
    ELSE LET rest == KeepMerged(Tail(prs), cutoff)
         IN  IF Head(prs).mergedAt # 0 /\ Head(prs).mergedAt > cutoff
             THEN <<Head(prs)>> \o rest
             ELSE rest

StartList(p, d) ==
    /\ inv[p].pc = "idle"
    /\ calls < MaxCalls
    /\ calls' = calls + 1
    /\ Step(p, [IdleInv EXCEPT !.pc = "l_page", !.cid = calls + 1,
                               !.op = "list", !.daysArg = d,
                               !.days = IF d <= 0 THEN DefaultDays ELSE d,
                               !.startedAt = now])
    /\ UNCHANGED <<closedPRs, now, origPR, conflicting, refs, pulls, confirmed>>

\* a listing that returns after the first page
ListPageFirstOnly(p) ==
    LET r == inv[p]
        k == IF r.page = 0 THEN 1 ELSE r.page
        all == r.allPRs \o KeepMerged(HostPage(k), now - r.days * DaySeconds)
    IN
    /\ r.pc = "l_page"
    /\ \E e \in CallAnswers(r, {}) :
          Step(p, IF e # NoErr
                  THEN Fail(r, ErrListMerged(e))
                  ELSE [r EXCEPT !.pc = "done", !.allPRs = all,
                                 !.result = [NoResult EXCEPT !.prs = all]])
    /\ UNCHANGED <<closedPRs, now, origPR, conflicting, refs, pulls, calls,
                   confirmed>>

\* one iteration of the loop: request a page, filter it, follow NextPage
ListPage(p) ==
    LET r == inv[p]
        k == IF r.page = 0 THEN 1 ELSE r.page
        all == r.allPRs \o KeepMerged(HostPage(k), now - r.days * DaySeconds)
    IN
    /\ r.pc = "l_page"
    /\ \E e \in CallAnswers(r, {}) :
          Step(p, IF e # NoErr
                  THEN Fail(r, ErrListMerged(e))
                  ELSE IF HostNextPage(k) = 0
                  THEN [r EXCEPT !.pc = "done", !.allPRs = all,
                                 !.result = [NoResult EXCEPT !.prs = all]]
                  ELSE [r EXCEPT !.page = HostNextPage(k), !.allPRs = all])
    /\ UNCHANGED <<closedPRs, now, origPR, conflicting, refs, pulls, calls,
                   confirmed>>

\* a second passes
Tick ==
    /\ now < Epoch + MaxTicks
    /\ now' = now + 1
    /\ UNCHANGED <<closedPRs, origPR, conflicting, refs, pulls, inv, calls,
                   checked, confirmed>>

\* ------------------------------------------------------------------------
\* create_cherry_pick_pr
\* ------------------------------------------------------------------------
CreateGetPR(p) ==
    LET r == inv[p] IN
    /\ r.pc = "c_getpr"
    /\ \E e \in CallAnswers(r, {}) :
          Step(p, IF e # NoErr
                  THEN Fail(r, ErrGetPR(r.prNumber, ErrGetPR(r.prNumber, e)))
                  ELSE IF NotMerged(r.prNumber)
                  THEN Fail(r, ErrNotMerged(r.prNumber))
                  ELSE [r EXCEPT !.pc = "c_commits",
                                 !.prTitle = OrigTitle(r.prNumber)])
    /\ UNCHANGED <<closedPRs, now, origPR, conflicting, refs, pulls, calls, confirmed>>

\* a materializer that does not run the prober
CreateGetCommitsNoCheck(p) ==
    LET r == inv[p] IN
    /\ r.pc = "c_commits"
    /\ \E e \in CallAnswers(r, {}) :
          Step(p, IF e # NoErr
                  THEN Fail(r, ErrGetCommits(ErrGetCommits(e)))
                  ELSE IF Len(FilterCommits(origPR[r.prNumber].commits)) = 0
                  THEN Fail(r, ErrNoCommits(r.prNumber))
                  ELSE [r EXCEPT !.pc = "c_getref",
                          !.commits = FilterCommits(origPR[r.prNumber].commits)])
    /\ UNCHANGED <<closedPRs, now, origPR, conflicting, refs, pulls, calls, confirmed>>

CreateGetCommits(p) ==
    LET r == inv[p] IN
    /\ r.pc = "c_commits"
    /\ \E e \in CallAnswers(r, {}) :
          Step(p, IF e # NoErr
                  THEN Fail(r, ErrGetCommits(ErrGetCommits(e)))
                  ELSE IF Len(FilterCommits(origPR[r.prNumber].commits)) = 0
                  THEN Fail(r, ErrNoCommits(r.prNumber))
                  ELSE [r EXCEPT !.pc = "k_getpr",
                          !.commits = FilterCommits(origPR[r.prNumber].commits)])
    /\ UNCHANGED <<closedPRs, now, origPR, conflicting, refs, pulls, calls, confirmed>>

\* a materializer that branches off the base branch
CreateGetBaseRef(p) ==
    LET r == inv[p] IN
    /\ r.pc = "c_getref"
    /\ \E e \in CallAnswers(r, GetRefRejections(r.baseBranch)) :
          Step(p, IF e # NoErr
                  THEN Fail(r, ErrTargetBranch(r.baseBranch, e))
                  ELSE [r EXCEPT !.pc = "c_createref",
                                 !.targetSHA = refs[r.baseBranch].sha])
    /\ UNCHANGED <<closedPRs, now, origPR, conflicting, refs, pulls, calls,
                   confirmed>>

CreateGetTargetRef(p) ==
    LET r == inv[p] IN
    /\ r.pc = "c_getref"
    /\ \E e \in CallAnswers(r, GetRefRejections(r.targetBranch)) :
          Step(p, IF e # NoErr
                  THEN Fail(r, ErrTargetBranch(r.targetBranch, e))
                  ELSE [r EXCEPT !.pc = "c_createref",
                                 !.targetSHA = refs[r.targetBranch].sha])
    /\ UNCHANGED <<closedPRs, now, origPR, conflicting, refs, pulls, calls, confirmed>>

\* a materializer that gives up when the ref cannot be created
CreateRefNoFallback(p) ==
    LET r == inv[p]
        name == CherryPickBranch(r.prNumber, r.targetBranch)
    IN
    /\ r.pc = "c_createref"
    /\ \E e \in CallAnswers(r, CreateRefRejections(name)) :
          IF e # NoErr
          THEN /\ Step(p, Fail([r EXCEPT !.createErr = e],
                               ErrCreateBranch(name, e)))
               /\ refs' = refs
          ELSE /\ refs' = refs @@ (name :> [sha |-> r.targetSHA, by |-> r.cid,
                                          pair |-> <<r.prNumber, r.targetBranch>>])
               /\ Step(p, [r EXCEPT !.pc = "c_createpr",
                                    !.newRefSHA = r.targetSHA])
    /\ UNCHANGED <<closedPRs, now, origPR, conflicting, pulls, calls, confirmed>>

CreateRef(p) ==
    LET r == inv[p]
        name == CherryPickBranch(r.prNumber, r.targetBranch)
    IN
    /\ r.pc = "c_createref"
    /\ \E e \in CallAnswers(r, CreateRefRejections(name)) :
          IF e # NoErr
          THEN /\ Step(p, [r EXCEPT !.pc = "c_getexisting", !.createErr = e])
               /\ refs' = refs
          ELSE /\ refs' = refs @@ (name :> [sha |-> r.targetSHA, by |-> r.cid,
                                          pair |-> <<r.prNumber, r.targetBranch>>])
               /\ Step(p, [r EXCEPT !.pc = "c_createpr",
                                    !.newRefSHA = r.targetSHA])
    /\ UNCHANGED <<closedPRs, now, origPR, conflicting, pulls, calls, confirmed>>

\* a materializer that refuses an existing ref that is not at the target tip
CreateGetExistingRefVerified(p) ==
    LET r == inv[p]
        name == CherryPickBranch(r.prNumber, r.targetBranch)
    IN
    /\ r.pc = "c_getexisting"
    /\ \E e \in CallAnswers(r, GetRefRejections(name)) :
          Step(p, IF e # NoErr
                  THEN Fail(r, ErrCreateBranch(name, r.createErr))
                  ELSE IF refs[name].sha # r.targetSHA
                  THEN Fail(r, ErrCreateBranch(name, "stale branch"))
                  ELSE [r EXCEPT !.pc = "c_createpr",
                                 !.newRefSHA = refs[name].sha])
    /\ UNCHANGED <<closedPRs, now, origPR, conflicting, refs, pulls, calls, confirmed>>

CreateGetExistingRef(p) ==
    LET r == inv[p]
        name == CherryPickBranch(r.prNumber, r.targetBranch)
    IN
    /\ r.pc = "c_getexisting"
    /\ \E e \in CallAnswers(r, GetRefRejections(name)) :
          Step(p, IF e # NoErr
                  THEN Fail(r, ErrCreateBranch(name, r.createErr))
                  ELSE [r EXCEPT !.pc = "c_createpr",
                                 !.newRefSHA = refs[name].sha])
    /\ UNCHANGED <<closedPRs, now, origPR, conflicting, refs, pulls, calls, confirmed>>

\* a materializer that opens the pull request against the base branch
CreatePRAgainstBase(p) ==
    LET r == inv[p]
        head == CherryPickBranch(r.prNumber, r.targetBranch)
        title == CherryPickTitle(r.prNumber, r.targetBranch, r.prTitle)
    IN
    /\ r.pc = "c_createpr"
    /\ \E e \in CallAnswers(r, CreatePullRejections(head, r.baseBranch)) :
          IF e # NoErr
          THEN /\ Step(p, Fail(r, ErrCreatePR(e)))
               /\ pulls' = pulls
          ELSE /\ pulls' = Append(pulls, NewPull(title, head, r.baseBranch, r))
               /\ Step(p, [r EXCEPT !.pc = "done",
                             !.result = [NoResult EXCEPT
                                           !.prNumber = PullNumber(Len(pulls) + 1),
                                           !.title = title,
                                           !.branch = head]])
    /\ UNCHANGED <<closedPRs, now, origPR, conflicting, refs, calls, confirmed>>

CreatePR(p) ==
    LET r == inv[p]
        head == CherryPickBranch(r.prNumber, r.targetBranch)
        title == CherryPickTitle(r.prNumber, r.targetBranch, r.prTitle)
    IN
    /\ r.pc = "c_createpr"
    /\ \E e \in CallAnswers(r, CreatePullRejections(head, r.targetBranch)) :
          IF e # NoErr
          THEN /\ Step(p, Fail(r, ErrCreatePR(e)))
               /\ pulls' = pulls
          ELSE /\ pulls' = Append(pulls, NewPull(title, head, r.targetBranch, r))
               /\ Step(p, [r EXCEPT !.pc = "done",
                             !.result = [NoResult EXCEPT
                                           !.prNumber = PullNumber(Len(pulls) + 1),
                                           !.title = title,
                                           !.branch = head]])
    /\ UNCHANGED <<closedPRs, now, origPR, conflicting, refs, calls, confirmed>>

\* ------------------------------------------------------------------------
\* Specification
\* ------------------------------------------------------------------------
Next ==
    \/ \E p \in Procs, n \in PRNumbers, t \in Targets, b \in BaseBranchArgs :
          StartCheck(p, n, t, b)
    \/ \E p \in Procs, n \in PRNumbers, t \in Targets, b \in BaseBranchArgs :
          StartCreate(p, n, t, b)
    \/ \E n \in PRNumbers, t \in Targets : Confirm(n, t)
    \/ \E p \in Procs : Finish(p)
    \/ \E p \in Procs : WrapperCommits(p)
    \/ \E p \in Procs : CheckGetPR(p)
    \/ \E p \in Procs : CheckGetCommits(p)
    \/ \E p \in Procs : CheckCreateProbe(p)
    \/ \E p \in Procs : Wait(p)
    \/ \E p \in Procs : CheckRead1(p)
    \/ \E p \in Procs : CheckRead2(p)
    \/ \E p \in Procs : CheckCloseErr(p)
    \/ \E p \in Procs : CheckClose(p)
    \/ \E p \in Procs : CreateGetPR(p)
    \/ \E p \in Procs : CreateGetCommits(p)
    \/ \E p \in Procs : CreateGetTargetRef(p)
    \/ \E p \in Procs : CreateRef(p)
    \/ \E p \in Procs : CreateGetExistingRef(p)
    \/ \E p \in Procs : CreatePR(p)

Spec == Init /\ [][Next]_vars

\* the pipeline with callers that may cancel the request context
NextCancel == Next \/ \E p \in Procs : Cancel(p)

SpecCancel == Init /\ [][NextCancel]_vars

TypeOK ==
    /\ calls \in 0..MaxCalls
    /\ checked \subseteq Pairs
    /\ confirmed \subseteq Pairs
    /\ \A i \in DOMAIN pulls : pulls[i].state \in {"open", "closed"}

\* ------------------------------------------------------------------------
\* Commit Filter on its own: every commit list up to MaxLen
\* ------------------------------------------------------------------------
InitFilter ==
    /\ origPR \in [PRNumbers -> [merged : {TRUE}, commits : CommitLists,
                                 hasHeadRef : {TRUE},
                                 headRef : {HeadRefOf(n) : n \in PRNumbers}]]
    /\ conflicting = [hb \in {HeadRefOf(n) : n \in PRNumbers} \X Targets |-> FALSE]
    /\ refs = [b \in Targets \cup {"main", "dev"}
                 |-> [sha |-> TipOf(b), by |-> 0, pair |-> <<0, "">>]]
    /\ pulls = <<>>
    /\ inv = [p \in Procs |-> IdleInv]
    /\ calls = 0
    /\ checked = {}
    /\ confirmed = {}
    /\ closedPRs = <<>>
    /\ now = Epoch

NextFilter ==
    \/ \E p \in Procs, n \in PRNumbers, t \in Targets, b \in BaseBranchArgs :
          StartCheck(p, n, t, b)
    \/ \E p \in Procs : WrapperCommits(p)

SpecFilter == InitFilter /\ [][NextFilter]_vars

\* ------------------------------------------------------------------------
\* Merge-Discovery on its own: every closed list up to MaxClosed
\* ------------------------------------------------------------------------
MergeTimes ==
    {0} \cup {Epoch - d * DaySeconds + k : d \in {1, DefaultDays}, k \in {-1, 0, 1}}

ClosedLists ==
    UNION {{[i \in 1..k |-> [number |-> i, mergedAt |-> f[i]]] :
               f \in [1..k -> MergeTimes]} : k \in 0..MaxClosed}

InitList ==
    /\ origPR \in [PRNumbers -> [merged : {TRUE}, commits : PRCommitLists,
                                 hasHeadRef : {TRUE},
                                 headRef : {HeadRefOf(n) : n \in PRNumbers}]]
    /\ conflicting = [hb \in {HeadRefOf(n) : n \in PRNumbers} \X Targets |-> FALSE]
    /\ refs = [b \in Targets \cup {"main", "dev"}
                 |-> [sha |-> TipOf(b), by |-> 0, pair |-> <<0, "">>]]
    /\ pulls = <<>>
    /\ inv = [p \in Procs |-> IdleInv]
    /\ calls = 0
    /\ checked = {}
    /\ confirmed = {}
    /\ closedPRs \in ClosedLists
    /\ now = Epoch

NextList ==
    \/ \E p \in Procs, d \in DaysArgs : StartList(p, d)
    \/ \E p \in Procs : ListPage(p)
    \/ Tick

SpecList == InitList /\ [][NextList]_vars

\* the loop goes on whenever the host has answered its request
SpecListFair == SpecList /\ \A p \in Procs : WF_vars(ListPage(p))

\* closed lists as the request orders them: by last update, newest first;
\* a pull request is updated when it is merged or later
UpdateTimes == {Epoch - DaySeconds + k : k \in {-2, 1}} \cup {Epoch - 1}

SortedClosedLists ==
    UNION {{[i \in 1..k |-> [number |-> i, mergedAt |-> m[i],
                             updatedAt |-> u[i]]] :
               m \in [1..k -> {0} \cup UpdateTimes],
               u \in [1..k -> UpdateTimes]} :
           k \in 0..MaxClosed}

InitListSorted ==
    /\ origPR = [n \in PRNumbers |->
                   [merged |-> TRUE,
                    commits |-> <<[sha |-> "a", parents |-> 1]>>,
                    hasHeadRef |-> TRUE,
                    headRef |-> HeadRefOf(n)]]
    /\ conflicting = [hb \in {HeadRefOf(n) : n \in PRNumbers} \X Targets |-> FALSE]
    /\ refs = [b \in Targets \cup {"main", "dev"}
                 |-> [sha |-> TipOf(b), by |-> 0, pair |-> <<0, "">>]]
    /\ pulls = <<>>
    /\ inv = [p \in Procs |-> IdleInv]
    /\ calls = 0
    /\ checked = {}
    /\ confirmed = {}
    /\ closedPRs \in SortedClosedLists
    /\ \A i \in DOMAIN closedPRs :
          /\ closedPRs[i].mergedAt <= closedPRs[i].updatedAt
          /\ \A j \in DOMAIN closedPRs :
                i < j => closedPRs[i].updatedAt >= closedPRs[j].updatedAt
    /\ now = Epoch

SpecListSorted == InitListSorted /\ [][NextList]_vars

\* ------------------------------------------------------------------------
\* The pipeline on a host that already has a cherry-pick branch
\* ------------------------------------------------------------------------
OldSHA == "old-commit"

\* a merged pull request with one commit; the branch of pair (1, "rel-1")
\* exists already, at the target tip or at an older commit
InitReuse ==
    /\ origPR = [n \in PRNumbers |->
                   [merged |-> TRUE,
                    commits |-> <<[sha |-> "a", parents |-> 1]>>,
                    hasHeadRef |-> TRUE,
                    headRef |-> HeadRefOf(n)]]
    /\ \E c \in BOOLEAN :
          conflicting = [hb \in {HeadRefOf(n) : n \in PRNumbers} \X Targets |-> c]
    /\ \E sha \in {OldSHA, TipOf("rel-1")} :
          refs = [b \in Targets \cup {"main", "dev"}
                            \cup {HeadRefOf(n) : n \in PRNumbers}
                     |-> [sha |-> TipOf(b), by |-> 0, pair |-> <<0, "">>]]
                 @@ (CherryPickBranch(1, "rel-1")
                        :> [sha |-> sha, by |-> 0, pair |-> <<0, "">>])
    /\ pulls = <<>>
    /\ inv = [p \in Procs |-> IdleInv]
    /\ calls = 0
    /\ checked = {}
    /\ confirmed = {}
    /\ closedPRs = <<>>
    /\ now = Epoch

SpecReuse == InitReuse /\ [][Next]_vars

\* ------------------------------------------------------------------------
\* Two callers at once, each with one invocation, for different pairs
\* ------------------------------------------------------------------------
ConcProcs == {1, 2}
ConcPRs == {1, 2}

\* two merged pull requests with one commit each; the second was opened
\* from its own branch or from the branch of the first
InitConc ==
    /\ \E h \in {HeadRefOf(n) : n \in ConcPRs} :
          origPR = [n \in ConcPRs |->
                      [merged |-> TRUE,
                       commits |-> <<[sha |-> "a", parents |-> 1]>>,
                       hasHeadRef |-> TRUE,
                       headRef |-> IF n = 1 THEN HeadRefOf(1) ELSE h]]
    /\ \E c \in BOOLEAN :
          conflicting = [hb \in {HeadRefOf(n) : n \in ConcPRs} \X Targets |-> c]
    /\ refs = [b \in Targets \cup {"main", "dev"}
                        \cup {HeadRefOf(n) : n \in ConcPRs}
                 |-> [sha |-> TipOf(b), by |-> 0, pair |-> <<0, "">>]]
    /\ pulls = <<>>
    /\ inv = [p \in ConcProcs |-> IdleInv]
    /\ calls = 0
    /\ checked = {}
    /\ confirmed = {}
    /\ closedPRs = <<>>
    /\ now = Epoch

\* no other caller works or has worked on the pair
PairFree(p, n, t) ==
    \A q \in ConcProcs \ {p} :
        <<inv[q].prNumber, inv[q].targetBranch>> # <<n, t>>

NextConc ==
    \/ \E p \in ConcProcs, n \in ConcPRs, t \in Targets :
          PairFree(p, n, t) /\ StartCheck(p, n, t, "")
    \/ \E p \in ConcProcs, n \in ConcPRs, t \in Targets :
          PairFree(p, n, t) /\ StartCreate(p, n, t, "")
    \/ \E p \in ConcProcs : WrapperCommits(p)
    \/ \E p \in ConcProcs : CheckGetPR(p)
    \/ \E p \in ConcProcs : CheckGetCommits(p)
    \/ \E p \in ConcProcs : CheckCreateProbe(p)
    \/ \E p \in ConcProcs : Wait(p)
    \/ \E p \in ConcProcs : CheckRead1(p)
    \/ \E p \in ConcProcs : CheckRead2(p)
    \/ \E p \in ConcProcs : CheckCloseErr(p)
    \/ \E p \in ConcProcs : CheckClose(p)
    \/ \E p \in ConcProcs : CreateGetPR(p)
    \/ \E p \in ConcProcs : CreateGetCommits(p)
    \/ \E p \in ConcProcs : CreateGetTargetRef(p)
    \/ \E p \in ConcProcs : CreateRef(p)
    \/ \E p \in ConcProcs : CreateGetExistingRef(p)
    \/ \E p \in ConcProcs : CreatePR(p)

SpecConc == InitConc /\ [][NextConc]_vars

\* ------------------------------------------------------------------------
\* Two callers at once on the same pair, whose commits conflict
\* ------------------------------------------------------------------------
SamePair == <<1, "rel-1">>

InitSame ==
    /\ origPR = [n \in PRNumbers |->
                   [merged |-> TRUE,
                    commits |-> <<[sha |-> "a", parents |-> 1]>>,
                    hasHeadRef |-> TRUE,
                    headRef |-> HeadRefOf(n)]]
    /\ conflicting = [hb \in {HeadRefOf(n) : n \in PRNumbers} \X Targets |-> TRUE]
    /\ refs = [b \in Targets \cup {"main", "dev"}
                        \cup {HeadRefOf(n) : n \in PRNumbers}
                 |-> [sha |-> TipOf(b), by |-> 0, pair |-> <<0, "">>]]
    /\ pulls = <<>>
    /\ inv = [p \in ConcProcs |-> IdleInv]
    /\ calls = 0
    /\ checked = {}
    /\ confirmed = {}
    /\ closedPRs = <<>>
    /\ now = Epoch

NextSame ==
    \/ \E p \in ConcProcs : StartCheck(p, SamePair[1], SamePair[2], "")
    \/ \E p \in ConcProcs : StartCreate(p, SamePair[1], SamePair[2], "")
    \/ \E p \in ConcProcs : WrapperCommits(p)
    \/ \E p \in ConcProcs : CheckGetPR(p)
    \/ \E p \in ConcProcs : CheckGetCommits(p)
    \/ \E p \in ConcProcs : CheckCreateProbe(p)
    \/ \E p \in ConcProcs : Wait(p)
    \/ \E p \in ConcProcs : CheckRead1(p)
    \/ \E p \in ConcProcs : CheckRead2(p)
    \/ \E p \in ConcProcs : CheckCloseErr(p)
    \/ \E p \in ConcProcs : CheckClose(p)
    \/ \E p \in ConcProcs : CreateGetPR(p)
    \/ \E p \in ConcProcs : CreateGetCommits(p)
    \/ \E p \in ConcProcs : CreateGetTargetRef(p)
    \/ \E p \in ConcProcs : CreateRef(p)
    \/ \E p \in ConcProcs : CreateGetExistingRef(p)
    \/ \E p \in ConcProcs : CreatePR(p)

SpecSame == InitSame /\ [][NextSame]_vars

\* ------------------------------------------------------------------------
\* What an invocation has made on the host
\* ------------------------------------------------------------------------
IsProbe(pl) == \E pair \in Pairs : pl.title = TestPRTitle(pair[1], pair[2])

MadeProbes(cid) == {i \in DOMAIN pulls : pulls[i].by = cid /\ IsProbe(pulls[i])}
MadePulls(cid) == {i \in DOMAIN pulls : pulls[i].by = cid /\ ~IsProbe(pulls[i])}
MadeRefs(cid) == {b \in DOMAIN refs : refs[b].by = cid}

PairOf(r) == <<r.prNumber, r.targetBranch>>

HasCherryPickable(n) ==
    \E i \in DOMAIN origPR[n].commits : origPR[n].commits[i].parents = 1

\* ------------------------------------------------------------------------
\* Claims
\* ------------------------------------------------------------------------

\* C1: when check_cherry_pick_conflicts returns, no probe pull request that
\* the call created is open on the host.
C1_NoProbeLeftOpen ==
    \A p \in Procs :
        (inv[p].pc = "done" /\ inv[p].op = "check")
            => \A i \in MadeProbes(inv[p].cid) : pulls[i].state = "closed"

\* C2: when the prober run inside create_cherry_pick_pr reports conflicts,
\* the call fails with the conflict error carrying the first detail and has
\* created neither a branch ref nor a pull request other than the probe.
C2_ConflictSafe ==
    \A p \in Procs :
        LET r == inv[p] IN
        (r.op = "create" /\ r.hasConflicts)
            => /\ r.pc \in {"k_close", "done"}
               /\ Len(r.conflictDetails) >= 1
               /\ r.pc = "done" =>
                     r.result.err = ErrConflict(r.prNumber, r.targetBranch,
                                                r.conflictDetails[1])
               /\ MadeRefs(r.cid) = {}
               /\ MadePulls(r.cid) = {}

C2_Witness ==
    \E p \in Procs :
        /\ inv[p].op = "create" /\ inv[p].pc = "done" /\ inv[p].hasConflicts
        /\ MadeProbes(inv[p].cid) # {}

\* C3: a create_cherry_pick_pr call that has created a branch ref or a pull
\* request has created a probe before and has read its mergeable flag as true.
C3_ReverifiedBeforeMaterialize ==
    \A p \in Procs :
        LET r == inv[p] IN
        (r.op = "create" /\ (MadeRefs(r.cid) # {} \/ MadePulls(r.cid) # {}))
            => (MadeProbes(r.cid) # {} /\ r.mergeable = "true")

\* C4: a step in which the probe creation fails returns from the check at
\* once with no error, has_conflicts = false and exactly the caution detail,
\* without a read of the probe and without a close call.
C4_ProbeCreationFailure ==
    [][\A p \in Procs :
         (inv[p].pc = "k_create" /\ inv'[p] # inv[p] /\ pulls' = pulls)
            => /\ inv'[p].checkErr = NoErr
               /\ ~inv'[p].hasConflicts
               /\ inv'[p].conflictDetails = <<CautionDetail(inv[p].headRef)>>
               /\ inv'[p].reads = 0 /\ inv'[p].closes = 0
               /\ inv'[p].testPR = 0
               /\ inv'[p].pc \in {"done", "c_getref"}
               /\ inv'[p].op = "check" =>
                     /\ inv'[p].pc = "done"
                     /\ inv'[p].result.err = NoErr
                     /\ ~inv'[p].result.hasConflicts
                     /\ inv'[p].result.details = <<CautionDetail(inv[p].headRef)>>
      ]_vars

C4_Witness ==
    \E p \in Procs :
        /\ inv[p].op = "check" /\ inv[p].pc = "done" /\ inv[p].testPR = 0
        /\ inv[p].result.err = NoErr /\ Len(inv[p].result.details) = 1
        /\ inv[p].closes = 0

\* C5: once the reads of a created probe are over, a flag that is still
\* unknown gives has_conflicts = true with the 'unable to determine' detail,
\* and has_conflicts = false is reported only if the flag was read as true.
C5_FailSafeOnUnknown ==
    \A p \in Procs :
        LET r == inv[p] IN
        (r.testPR # 0 /\ r.checkErr = NoErr
            /\ r.pc \notin {"k_read1", "k_read2", "k_closeErr"})
            => /\ r.mergeable = "nil" =>
                     (r.hasConflicts /\ r.conflictDetails = <<UnableDetail>>)
               /\ ~r.hasConflicts => r.mergeable = "true"
               /\ (r.pc = "done" /\ r.op = "check") =>
                     /\ r.result.err = NoErr
                     /\ r.result.hasConflicts = r.hasConflicts
                     /\ r.result.details = r.conflictDetails

C5_Witness ==
    \E p \in Procs :
        /\ inv[p].op = "check" /\ inv[p].pc = "done" /\ inv[p].reads = 2
        /\ inv[p].mergeable = "nil" /\ inv[p].result.hasConflicts

\* C6: the refs made for one (PR, target) pair all have the one name
\* cherry-pick-<number>-to-<target>; a create call that finds the ref made
\* by an earlier call makes no ref and opens its pull request from that
\* ref, and it fails with the pull-request creation error if the earlier
\* call's pull request is still open.
C6_IdempotentBranchReuse ==
    /\ \A b \in DOMAIN refs :
          refs[b].by # 0 =>
              b = "cherry-pick-" \o ToString(refs[b].pair[1]) \o "-to-"
                      \o refs[b].pair[2]
    /\ \A b1, b2 \in DOMAIN refs :
          (refs[b1].by # 0 /\ refs[b2].by # 0 /\ refs[b1].pair = refs[b2].pair)
              => b1 = b2
    /\ \A p \in Procs :
          LET r == inv[p] IN
          (r.op = "create" /\ r.pc = "done") =>
              /\ \A b \in DOMAIN refs :
                    (refs[b].pair = PairOf(r) /\ refs[b].by \notin {0, r.cid})
                        => /\ MadeRefs(r.cid) = {}
                           /\ r.result.err = NoErr => r.result.branch = b
              /\ \A i \in DOMAIN pulls :
                    (pulls[i].pair = PairOf(r) /\ ~IsProbe(pulls[i])
                        /\ pulls[i].by # r.cid /\ pulls[i].state = "open")
                        => /\ r.result.err # NoErr
                           /\ r.newRefSHA # "" =>
                                 r.result.err \in
                                    {ErrCreatePR(e) : e \in HostErrs
                                        \cup {"a pull request already exists"}}

C6_Witness ==
    \E p \in Procs :
        /\ inv[p].op = "create" /\ inv[p].pc = "done"
        /\ inv[p].result.err = ErrCreatePR("a pull request already exists")
        /\ inv[p].createErr = "reference already exists"
        /\ MadeRefs(inv[p].cid) = {}

\* C7: for every (PR, target) pair the host holds at most one branch ref
\* and at most one pull request made by create_cherry_pick_pr.
C7_AtMostOnePerPair ==
    \A pair \in Pairs :
        /\ Cardinality({b \in DOMAIN refs :
                            refs[b].by # 0 /\ refs[b].pair = pair}) <= 1
        /\ Cardinality({i \in DOMAIN pulls :
                            ~IsProbe(pulls[i]) /\ pulls[i].pair = pair}) <= 1

C7_Witness ==
    \E p \in Procs :
        /\ inv[p].op = "create" /\ inv[p].pc = "done"
        /\ inv[p].newRefSHA # ""
        /\ \E i \in DOMAIN pulls :
              /\ ~IsProbe(pulls[i]) /\ pulls[i].pair = PairOf(inv[p])
              /\ pulls[i].by < inv[p].cid

\* C8: the list GetPullRequestCommits returns is the subsequence of the
\* host's commit list made of the commits with exactly one parent: its k-th
\* element is the k-th one-parent commit of the host's list.
C8_CommitFilter ==
    \A p \in Procs :
        LET r == inv[p] IN
        (r.op = "check" /\ r.pc = "k_getpr") =>
            LET in == origPR[r.prNumber].commits
                out == r.commits
            IN  /\ Len(out) = Cardinality({i \in DOMAIN in : in[i].parents = 1})
                /\ \A k \in DOMAIN out :
                      \E i \in DOMAIN in :
                          /\ in[i] = out[k]
                          /\ in[i].parents = 1
                          /\ Cardinality({j \in 1..i : in[j].parents = 1}) = k

C8_Witness ==
    \E p \in Procs :
        LET in == origPR[inv[p].prNumber].commits IN
        /\ inv[p].op = "check" /\ inv[p].pc = "k_getpr"
        /\ Len(in) = 3 /\ in[1].parents = 2
        /\ inv[p].commits = <<in[2], in[3]>>
        /\ in[2] # in[3]

\* C9: every branch ref and every pull request made by create_cherry_pick_pr
\* is for a pair that was checked and that the human confirmed before.
C9_ConfirmationGate ==
    /\ \A b \in DOMAIN refs :
          refs[b].by # 0 =>
              (refs[b].pair \in checked /\ refs[b].pair \in confirmed)
    /\ \A i \in DOMAIN pulls :
          ~IsProbe(pulls[i]) =>
              (pulls[i].pair \in checked /\ pulls[i].pair \in confirmed)

\* C10: a create_cherry_pick_pr call for a pull request that is not merged
\* or has no commit with exactly one parent fails and makes nothing on the
\* host: no probe, no branch ref, no pull request.
C10_ValidationSideEffectFree ==
    \A p \in Procs :
        LET r == inv[p] IN
        (r.op = "create"
            /\ (~origPR[r.prNumber].merged \/ ~HasCherryPickable(r.prNumber)))
            => /\ {i \in DOMAIN pulls : pulls[i].by = r.cid} = {}
               /\ MadeRefs(r.cid) = {}
               /\ r.pc \in {"c_getpr", "c_commits", "done"}
               /\ r.pc = "done" => r.result.err # NoErr

C10_Witness ==
    \E p \in Procs :
        /\ inv[p].op = "create" /\ inv[p].pc = "done"
        /\ ~origPR[inv[p].prNumber].merged
        /\ inv[p].result.err = ErrNotMerged(inv[p].prNumber)

\* C11: once the context is cancelled during one of the two polling waits
\* the check waits no longer and makes no further read of the probe.
C11_CancelAbortsWait ==
    [][\A p \in Procs :
         (inv[p].cancelled /\ inv[p].pc \in {"k_read1", "k_read2"})
            => /\ inv'[p].waited <= inv[p].waited
               /\ inv'[p].polls = inv[p].polls
      ]_vars

\* C12: for a created probe the close call has not been made while the
\* check is still reading, and has been made exactly once when the check
\* has returned, whichever way it returned.
C12_CloseExactlyOnce ==
    \A p \in Procs :
        LET r == inv[p] IN
        r.testPR # 0 =>
            IF r.pc \in {"k_read1", "k_read2", "k_closeErr", "k_close"}
            THEN r.closes = 0
            ELSE r.closes = 1

C12_Witness ==
    \E p \in Procs :
        /\ inv[p].op = "check" /\ inv[p].pc = "done" /\ inv[p].testPR # 0
        /\ inv[p].checkErr = ErrTestPRStatus("unavailable")
        /\ inv[p].closes = 1

Numbers(prs) == {prs[i].number : i \in DOMAIN prs}

\* C13: in a listing during which the clock did not move, a pull request
\* merged exactly at now - days is in the result and one merged one second
\* before it is not.
C13_DiscoveryBoundary ==
    \A p \in Procs :
        LET r == inv[p]
            cutoff == now - r.days * DaySeconds
        IN  (r.op = "list" /\ r.pc = "done" /\ r.result.err = NoErr
                /\ now = r.startedAt)
            => \A i \in DOMAIN closedPRs :
                  /\ closedPRs[i].mergedAt = cutoff
                        => closedPRs[i].number \in Numbers(r.result.prs)
                  /\ closedPRs[i].mergedAt = cutoff - 1
                        => closedPRs[i].number \notin Numbers(r.result.prs)

\* C14: the result of a listing is, in host order and without repetition,
\* made of merged pull requests of the host's list; with the window of
\* days (7 when days <= 0) it holds none merged at or before the cutoff of
\* the moment the listing started and all merged after the cutoff of the
\* moment it returned, whatever page they are on.
C14_ListMerged ==
    \A p \in Procs :
        LET r == inv[p]
            window == (IF r.daysArg <= 0 THEN 7 ELSE r.daysArg) * DaySeconds
            out == r.result.prs
        IN  (r.op = "list" /\ r.pc = "done" /\ r.result.err = NoErr)
            => /\ out = SelectSeq(closedPRs,
                                  LAMBDA c : c.number \in Numbers(out))
               /\ \A i \in DOMAIN out :
                     /\ out[i].mergedAt # 0
                     /\ out[i].mergedAt > r.startedAt - window
               /\ \A i \in DOMAIN closedPRs :
                     (closedPRs[i].mergedAt # 0
                         /\ closedPRs[i].mergedAt > now - window)
                        => closedPRs[i].number \in Numbers(out)

C14_Witness ==
    \E p \in Procs :
        /\ inv[p].op = "list" /\ inv[p].pc = "done"
        /\ inv[p].result.err = NoErr /\ inv[p].daysArg = 0
        /\ Len(closedPRs) > PerPage
        /\ closedPRs[1].mergedAt = 0
        /\ closedPRs[2].mergedAt = Epoch - 7 * DaySeconds - 1
        /\ inv[p].result.prs = <<closedPRs[Len(closedPRs)]>>

C16_CreatedFromBase ==
    \A p \in Procs :
        inv[p].op = "create" =>
            \A b \in MadeRefs(inv[p].cid) :
                refs[b].sha = refs[inv[p].baseBranch].sha

\* C17: the pull request a successful create_cherry_pick_pr returns has the
\* head cherry-pick-<number>-to-<target> and the target branch as base, and
\* the branch of the result is that head.
C17_HeadAndBase ==
    \A p \in Procs :
        LET r == inv[p] IN
        (r.op = "create" /\ r.pc = "done" /\ r.result.err = NoErr)
            => /\ PullIndex(r.result.prNumber) \in DOMAIN pulls
               /\ LET pl == pulls[PullIndex(r.result.prNumber)]
                  IN  /\ pl.by = r.cid
                      /\ pl.head = "cherry-pick-" \o ToString(r.prNumber)
                                       \o "-to-" \o r.targetBranch
                      /\ pl.base = r.targetBranch
                      /\ r.result.branch = pl.head

C17_Witness ==
    \E p \in Procs :
        /\ inv[p].op = "create" /\ inv[p].pc = "done"
        /\ inv[p].result.err = NoErr
        /\ inv[p].result.branch = "cherry-pick-1-to-rel-2"
        /\ MadePulls(inv[p].cid) # {}

\* the commit a branch points at after the commits are picked onto sha
RECURSIVE PickOnto(_, _)
PickOnto(sha, commits) ==
    IF commits = <<>> THEN sha
    ELSE PickOnto(sha \o "+" \o Head(commits).sha, Tail(commits))

\* C18: after a successful create_cherry_pick_pr the head branch of the
\* created pull request is the target tip with the one-parent commits of
\* the original pull request picked onto it, in order.
C18_CommitsPicked ==
    \A p \in Procs :
        LET r == inv[p] IN
        (r.op = "create" /\ r.pc = "done" /\ r.result.err = NoErr)
            => refs[r.result.branch].sha =
                  PickOnto(refs[r.targetBranch].sha,
                           SelectSeq(origPR[r.prNumber].commits,
                                     LAMBDA c : c.parents = 1))

\* C20: a check for a pull request that fails a validation makes no pull
\* request and ends with the error of the first validation that fails, in
\* the order merged, cherry-pickable commit, head ref (or with the error of
\* a failed host call).
C20_ValidationOrder ==
    \A p \in Procs :
        LET r == inv[p]
            n == r.prNumber
            expected ==
                IF ~origPR[n].merged THEN ErrNotMerged(n)
                ELSE IF ~HasCherryPickable(n) THEN ErrNoCommits(n)
                ELSE ErrNoHeadRef(n)
            hostFailures ==
                UNION {{ErrGetCommits(e), ErrGetPR(n, ErrGetPR(n, e)),
                        ErrGetCommits(ErrGetCommits(e))} : e \in HostErrs}
        IN  (r.op = "check"
                /\ ~(origPR[n].merged /\ HasCherryPickable(n)
                        /\ origPR[n].hasHeadRef))
            => /\ {i \in DOMAIN pulls : pulls[i].by = r.cid} = {}
               /\ r.pc \in {"w_commits", "k_getpr", "k_commits", "done"}
               /\ r.pc = "done" =>
                     r.result.err \in hostFailures \cup {expected}

C20_Witness ==
    \E p \in Procs :
        /\ inv[p].op = "check" /\ inv[p].pc = "done"
        /\ origPR[inv[p].prNumber].merged
        /\ ~HasCherryPickable(inv[p].prNumber)
        /\ ~origPR[inv[p].prNumber].hasHeadRef
        /\ inv[p].result.err = ErrNoCommits(inv[p].prNumber)

\* C19: invocations for different pairs that run at once do not disturb
\* each other: a pull request or a ref that one of them made never makes
\* the host reject a request of the other, so each meets the host it would
\* meet alone.
C19_Independent ==
    \A p \in DOMAIN inv :
        LET r == inv[p]
            own == <<r.prNumber, r.targetBranch>>
            branch == CherryPickBranch(r.prNumber, r.targetBranch)
        IN  /\ \A i \in DOMAIN pulls :
                  (pulls[i].state = "open" /\ pulls[i].pair # own)
                      => /\ ~(/\ r.pc = "k_create"
                              /\ pulls[i].head = r.headRef
                              /\ pulls[i].base = r.targetBranch)
                         /\ ~(/\ r.pc = "c_createpr"
                              /\ pulls[i].head = branch
                              /\ pulls[i].base = r.targetBranch)
            /\ \A b \in DOMAIN refs :
                  (refs[b].by # 0 /\ refs[b].pair # own)
                      => ~(r.pc = "c_createref" /\ b = branch)

\* C21: when the probe's mergeable flag reads true the check reports no
\* conflicts and no details; when it reads false the check reports conflicts
\* with a first detail naming the pull request and the target, followed by a
\* detail with the mergeable state iff the host supplied one.
C21_Interpretation ==
    \A p \in Procs :
        LET r == inv[p]
            first == "PR #" \o ToString(r.prNumber)
                        \o " commits cannot be cleanly merged into "
                        \o r.targetBranch
        IN  /\ r.mergeable = "true" =>
                  /\ ~r.hasConflicts
                  /\ r.conflictDetails = <<>>
            /\ r.mergeable = "false" =>
                  /\ r.hasConflicts
                  /\ r.conflictDetails =
                        IF r.mergeableState = "" THEN <<first>>
                        ELSE <<first, "Mergeable state: " \o r.mergeableState>>
            /\ (r.mergeable \in {"true", "false"} /\ r.op = "check"
                    /\ r.pc = "done")
                  => /\ r.result.err = NoErr
                     /\ r.result.hasConflicts = r.hasConflicts
                     /\ r.result.details = r.conflictDetails

C21_Witness ==
    \E p \in Procs :
        /\ inv[p].op = "check" /\ inv[p].pc = "done"
        /\ inv[p].mergeable = "false" /\ inv[p].reads = 2
        /\ inv[p].mergeableState = "dirty"
        /\ Len(inv[p].result.details) = 2

\* C22: a conflict check asks for the probe's mergeable flag at most twice;
\* it asks the second time only after the first read answered unknown, and
\* after the second request it goes on to close the probe, whatever the
\* answer.
C22_BoundedPoll ==
    [][\A p \in Procs :
          /\ inv'[p].polls <= 2
          /\ inv'[p].reads <= inv'[p].polls
          /\ (inv[p].polls >= 1 /\ inv'[p].polls > inv[p].polls)
                => /\ inv[p].pc = "k_read2"
                   /\ inv[p].polls = 1 /\ inv[p].reads = 1
                   /\ inv[p].mergeable = "nil"
                   /\ inv'[p].pc = "k_close"]_vars

C22_Witness ==
    \E p \in Procs :
        /\ inv[p].pc = "done" /\ inv[p].polls = 2 /\ inv[p].reads = 1
        /\ inv[p].closes = 1

\* C23: the outcome of the request that closes the probe is never returned
\* and never changes the answer: what a check returns after the close is
\* fixed by what it knew before it, whether the probe got closed or not.
C23_CloseFailureSwallowed ==
    [][\A p \in Procs :
          (inv[p].op = "check" /\ inv'[p].closes > inv[p].closes)
             => /\ inv'[p].pc = "done"
                /\ inv'[p].result.err = inv[p].checkErr
                /\ inv[p].checkErr = NoErr
                      => /\ inv'[p].result.hasConflicts = inv[p].hasConflicts
                         /\ inv'[p].result.details = inv[p].conflictDetails
                /\ inv[p].checkErr # NoErr
                      => /\ ~inv'[p].result.hasConflicts
                         /\ inv'[p].result.details = <<>>]_vars

\* a check that answered without error although its probe was not closed
C23_Witness ==
    \E p \in Procs :
        /\ inv[p].op = "check" /\ inv[p].pc = "done" /\ inv[p].closes = 1
        /\ inv[p].result.err = NoErr /\ ~inv[p].result.hasConflicts
        /\ inv[p].mergeable = "true"
        /\ pulls[PullIndex(inv[p].testPR)].state = "open"

\* C24: a create_cherry_pick_pr that ends at the read of the target branch's
\* ref ends with the target-branch error, and has made no ref and no pull
\* request other than its probe.
C24_TargetReadFailure ==
    [][\A p \in Procs :
          (inv[p].pc = "c_getref" /\ inv'[p].pc = "done")
             => /\ inv'[p].result.err \in
                      {"failed to get target branch " \o inv[p].targetBranch
                          \o ": " \o e : e \in HostErrs \cup {"not found"}}
                /\ inv'[p].result.prNumber = 0
                /\ {b \in DOMAIN refs' : refs'[b].by = inv[p].cid} = {}
                /\ \A i \in DOMAIN pulls' :
                      pulls'[i].by = inv[p].cid
                         => /\ i = PullIndex(inv[p].testPR)
                            /\ pulls'[i].title =
                                  TestPRTitle(inv[p].prNumber,
                                              inv[p].targetBranch)]_vars

C24_Witness ==
    \E p \in Procs :
        /\ inv[p].op = "create" /\ inv[p].pc = "done"
        /\ inv[p].result.err = ErrTargetBranch(inv[p].targetBranch, "unavailable")
        /\ inv[p].testPR # 0
        /\ MadeRefs(inv[p].cid) = {}

\* C25: when the creation of the cherry-pick ref fails the call reads the
\* ref of that name; if the read answers it goes on to create the pull
\* request from the ref it read, and if the read fails too the call ends
\* with the branch-creation error and without a pull request.
C25_FallbackToExistingRef ==
    [][\A p \in Procs :
          LET r == inv[p]
              name == "cherry-pick-" \o ToString(r.prNumber) \o "-to-"
                          \o r.targetBranch
          IN  /\ (r.pc = "c_createref" /\ inv'[p].pc # "c_createref")
                    => IF name \in {b \in DOMAIN refs' : refs'[b].by = r.cid}
                       THEN inv'[p].pc = "c_createpr"
                       ELSE /\ inv'[p].pc = "c_getexisting"
                            /\ inv'[p].createErr # NoErr
                            /\ refs' = refs
              /\ (r.pc = "c_getexisting" /\ inv'[p].pc # "c_getexisting")
                    => \/ /\ inv'[p].pc = "c_createpr"
                          /\ name \in DOMAIN refs
                          /\ inv'[p].newRefSHA = refs[name].sha
                          /\ refs' = refs
                       \/ /\ inv'[p].pc = "done"
                          /\ inv'[p].result.err =
                                "failed to create branch " \o name \o ": "
                                    \o r.createErr
                          /\ inv'[p].result.prNumber = 0
                          /\ {i \in DOMAIN pulls' :
                                 pulls'[i].by = r.cid /\ pulls'[i].head = name}
                                = {}
              /\ (r.pc = "c_getexisting" /\ name \notin DOMAIN refs)
                    => inv'[p].pc \in {"c_getexisting", "done"}]_vars

\* a call that could not create the ref, read the existing one and opened
\* the pull request from it
C25_Witness ==
    \E p \in Procs :
        /\ inv[p].op = "create" /\ inv[p].pc = "done"
        /\ inv[p].createErr # NoErr
        /\ inv[p].result.err = NoErr
        /\ MadeRefs(inv[p].cid) = {}
        /\ MadePulls(inv[p].cid) # {}

\* C26: the request that creates the cherry-pick pull request is made once:
\* whatever the host answers the call ends with that step, on failure with
\* the host's error and the refs as they were, and a call that has ended
\* changes nothing on the host.
C26_NoRetry ==
    [][\A p \in Procs :
          LET r == inv[p] IN
          /\ (r.pc = "c_createpr" /\ inv'[p] # r)
                => /\ inv'[p].pc = "done"
                   /\ refs' = refs
                   /\ IF pulls' = pulls
                      THEN /\ inv'[p].result.err \in
                                 {"failed to create cherry-pick PR: " \o e :
                                     e \in HostErrs \cup
                                        {"a pull request already exists",
                                         "invalid head or base"}}
                           /\ inv'[p].result.prNumber = 0
                      ELSE /\ Len(pulls') = Len(pulls) + 1
                           /\ SubSeq(pulls', 1, Len(pulls)) = pulls
                           /\ inv'[p].result.err = NoErr
          /\ (r.pc = "done" /\ r.op = "create")
                => (pulls' = pulls /\ refs' = refs)]_vars

\* a call whose pull-request creation failed and whose new ref stays
C26_Witness ==
    \E p \in Procs :
        /\ inv[p].op = "create" /\ inv[p].pc = "done"
        /\ inv[p].result.err = ErrCreatePR("unavailable")
        /\ MadeRefs(inv[p].cid) # {}
        /\ MadePulls(inv[p].cid) = {}

\* C27: a ref that exists is never moved, deleted or recreated, and a
\* create_cherry_pick_pr that finds the ref of its pair goes on with that
\* ref as it is, whatever commit it points at: after a successful read the
\* pull request is opened from it.
C27_ExistingRefReused ==
    [][/\ \A b \in DOMAIN refs : b \in DOMAIN refs' /\ refs'[b] = refs[b]
       /\ \A p \in Procs :
             LET r == inv[p]
                 name == "cherry-pick-" \o ToString(r.prNumber) \o "-to-"
                             \o r.targetBranch
             IN  /\ (r.pc = "c_createref" /\ name \in DOMAIN refs
                        /\ inv'[p] # r)
                       => inv'[p].pc = "c_getexisting"
                 /\ (r.pc = "c_getexisting" /\ inv'[p] # r)
                       => \/ /\ inv'[p].pc = "c_createpr"
                             /\ inv'[p].newRefSHA = refs[name].sha
                          \/ /\ inv'[p].pc = "done"
                             /\ inv'[p].result.err =
                                   "failed to create branch " \o name \o ": "
                                       \o r.createErr
                             /\ r.createErr \in
                                   HostErrs \cup {"reference already exists"}
                 /\ (r.pc = "c_createpr" /\ inv'[p].result.prNumber # 0)
                       => /\ pulls'[Len(pulls')].head = name
                          /\ refs'[name].sha = r.newRefSHA]_vars

\* a pull request opened from an existing branch that is not at the tip of
\* its target
C27_Witness ==
    \E p \in Procs :
        /\ inv[p].op = "create" /\ inv[p].pc = "done"
        /\ inv[p].result.err = NoErr
        /\ inv[p].result.branch \in DOMAIN refs
        /\ refs[inv[p].result.branch].sha = OldSHA
        /\ inv[p].targetSHA # OldSHA
        /\ pulls[PullIndex(inv[p].result.prNumber)].head = inv[p].result.branch
        /\ pulls[PullIndex(inv[p].result.prNumber)].state = "open"

\* C28: a listing requests the pages one after another, each once, goes on
\* exactly while the answers report a next page, and returns: a listing
\* that has started ends.
C28_PaginationTerminates ==
    /\ [][\A p \in Procs :
            LET r == inv[p]
                k == IF r.page = 0 THEN 1 ELSE r.page
            IN  (r.pc = "l_page" /\ inv'[p] # r)
                   => \/ /\ inv'[p].pc = "done"
                         /\ inv'[p].result.err # NoErr
                      \/ /\ k * PerPage >= Len(closedPRs)
                         /\ inv'[p].pc = "done"
                         /\ inv'[p].result.err = NoErr
                      \/ /\ k * PerPage < Len(closedPRs)
                         /\ inv'[p].pc = "l_page"
                         /\ inv'[p].page = k + 1]_vars
    /\ \A p \in Procs : (inv[p].pc = "l_page") ~> (inv[p].pc = "done")

C28_Witness ==
    \E p \in Procs :
        /\ inv[p].op = "list" /\ inv[p].pc = "done"
        /\ inv[p].result.err = NoErr
        /\ inv[p].page = 2
        /\ Len(closedPRs) > PerPage /\ Len(closedPRs) <= 2 * PerPage

\* C29: a listing that has read a page whose oldest entry was last updated
\* before the cutoff requests no further page, although the host reports
\* one.
C29_StopsAtCutoff ==
    [][\A p \in Procs :
          LET r == inv[p]
              k == IF r.page = 0 THEN 1 ELSE r.page
              first == (k - 1) * PerPage + 1
              last == k * PerPage
          IN  (/\ r.pc = "l_page" /\ inv'[p] # r
               /\ inv'[p].result.err = NoErr
               /\ last < Len(closedPRs)
               /\ closedPRs[last].updatedAt < now - r.days * DaySeconds)
                  => inv'[p].pc = "done"]_vars

\* C30: with two invocations at once on one pair whose commits conflict, an
\* invocation whose probe cannot be created because the probe of the other
\* is still open does not take this for 'no conflicts': it neither returns
\* has_conflicts = false nor goes on to materialize.
C30_DuplicateProbeNotClean ==
    [][\A p \in DOMAIN inv :
          LET r == inv[p] IN
          (/\ r.pc = "k_create" /\ inv'[p] # r
           /\ conflicting[<<r.headRef, r.targetBranch>>]
           /\ \E i \in DOMAIN pulls :
                 /\ pulls[i].state = "open"
                 /\ pulls[i].head = r.headRef
                 /\ pulls[i].base = r.targetBranch
                 /\ pulls[i].by # r.cid)
             => /\ inv'[p].pc # "c_getref"
                /\ inv'[p].pc = "done"
                      => \/ inv'[p].result.err # NoErr
                         \/ inv'[p].result.hasConflicts]_vars

\* C31: whenever the prober has found conflicts it holds at least one
\* detail; a check that returns has_conflicts = true without error returns
\* at least one detail, and the conflict error of create_cherry_pick_pr
\* quotes a detail of the prober, never the text 'Unknown conflicts'.
C31_ConflictsCarryDetail ==
    \A p \in Procs :
        LET r == inv[p]
            prefix == "cannot cherry-pick PR #" \o ToString(r.prNumber)
                         \o " to " \o r.targetBranch \o ": "
            proberDetails ==
                {"PR #" \o ToString(r.prNumber)
                    \o " commits cannot be cleanly merged into "
                    \o r.targetBranch,
                 "Unable to determine mergeability status - assuming conflicts exist"}
        IN  /\ r.hasConflicts =>
                  /\ Len(r.conflictDetails) >= 1
                  /\ r.conflictDetails[1] \in proberDetails
            /\ (r.op = "check" /\ r.pc = "done" /\ r.result.err = NoErr
                    /\ r.result.hasConflicts)
                  => Len(r.result.details) >= 1
            /\ (r.op = "create" /\ r.pc = "done")
                  => /\ r.result.err # prefix \o "Unknown conflicts"
                     /\ r.hasConflicts
                           => r.result.err \in {prefix \o d : d \in proberDetails}

\* a create refused with the detail of a poll that stayed unknown
C31_Witness ==
    \E p \in Procs :
        /\ inv[p].op = "create" /\ inv[p].pc = "done"
        /\ inv[p].hasConflicts /\ inv[p].mergeable = "nil"
        /\ inv[p].result.err =
              ErrConflict(inv[p].prNumber, inv[p].targetBranch, UnableDetail)

\* the positions of a create_cherry_pick_pr call at and after its first ref
\* call, before it returns
RefPhase == {"c_getref", "c_createref", "c_getexisting", "c_createpr"}

\* C32: in a create_cherry_pick_pr call the prober has finished, with its
\* probe created and the close of it attempted (or with no probe at all),
\* before the target tip is read and before a ref or a pull request is
\* made; from the first ref call on no probe is created or closed.
C32_ProbeBeforeMaterialize ==
    /\ [](\A p \in Procs :
            LET r == inv[p] IN
            r.op = "create" =>
               /\ r.pc \notin RefPhase \cup {"done"}
                     => /\ r.targetSHA = ""
                        /\ MadeRefs(r.cid) = {}
                        /\ MadePulls(r.cid) = {}
               /\ (r.pc \in RefPhase \/ r.targetSHA # ""
                      \/ MadeRefs(r.cid) # {} \/ MadePulls(r.cid) # {})
                     => \/ /\ r.testPR # 0 /\ r.closes = 1
                           /\ MadeProbes(r.cid) = {PullIndex(r.testPR)}
                        \/ /\ r.testPR = 0 /\ r.closes = 0
                           /\ MadeProbes(r.cid) = {}
                           /\ r.conflictDetails = <<CautionDetail(r.headRef)>>)
    /\ [][\A p \in Procs :
            LET r == inv[p] IN
            (r.op = "create" /\ r.pc \in RefPhase)
               => /\ inv'[p].closes = r.closes
                  /\ inv'[p].testPR = r.testPR
                  /\ \A i \in DOMAIN pulls' :
                        (pulls'[i].by = r.cid
                            /\ pulls'[i].title =
                                  TestPRTitle(r.prNumber, r.targetBranch))
                           => (i \in DOMAIN pulls /\ pulls'[i] = pulls[i])]_vars

C32_Witness ==
    \E p \in Procs :
        /\ inv[p].op = "create" /\ inv[p].pc = "c_createpr"
        /\ inv[p].testPR # 0 /\ inv[p].closes = 1
        /\ pulls[PullIndex(inv[p].testPR)].state = "closed"
        /\ MadeRefs(inv[p].cid) # {}

\* C33: a step of check_cherry_pick_conflicts leaves the refs as they are
\* and changes the pull requests in two ways only: it adds one probe, the
\* first of the call, or it closes the probe the call created.
C33_CheckFrame ==
    [][\A p \in Procs :
          LET r == inv[p] IN
          r.op = "check" =>
             /\ refs' = refs
             /\ origPR' = origPR
             /\ \/ pulls' = pulls
                \/ /\ Len(pulls') = Len(pulls) + 1
                   /\ SubSeq(pulls', 1, Len(pulls)) = pulls
                   /\ pulls'[Len(pulls')].title =
                         "[TEST] Conflict check for PR #" \o ToString(r.prNumber)
                            \o " cherry-pick to " \o r.targetBranch
                   /\ pulls'[Len(pulls')].by = r.cid
                   /\ {i \in DOMAIN pulls : pulls[i].by = r.cid} = {}
                   /\ inv'[p].testPR = PullNumber(Len(pulls'))
                \/ /\ r.testPR # 0
                   /\ pulls[PullIndex(r.testPR)].by = r.cid
                   /\ pulls' = [pulls EXCEPT
                                  ![PullIndex(r.testPR)].state = "closed"]]_vars

\* a check that closed its own probe next to an open probe of an earlier call
C33_Witness ==
    \E p \in Procs :
        /\ inv[p].op = "check" /\ inv[p].pc = "done" /\ inv[p].cid = 2
        /\ Len(pulls) = 2
        /\ pulls[1].state = "open" /\ pulls[1].by = 1
        /\ pulls[2].state = "closed" /\ pulls[2].by = 2
        /\ inv[p].testPR = PullNumber(2)

\* C34: a check whose first read of the probe fails attempts the close and
\* returns the read error, with has_conflicts = false and no details; a
\* check whose first read answered unknown and whose second read fails
\* returns has_conflicts = true with the 'unable to determine' detail and
\* no error.
C34_ReadFailureByPosition ==
    \A p \in Procs :
        LET r == inv[p]
            unable == "Unable to determine mergeability status - assuming conflicts exist"
        IN  /\ (r.polls = 1 /\ r.reads = 0)
                  => /\ r.pc \in {"k_closeErr", "done"}
                     /\ r.checkErr \in
                           {"failed to get test PR status: " \o e : e \in HostErrs}
                     /\ (r.pc = "done" /\ r.op = "check")
                           => /\ r.closes = 1
                              /\ r.result.err = r.checkErr
                              /\ ~r.result.hasConflicts
                              /\ r.result.details = <<>>
            /\ (r.polls = 2 /\ r.reads = 1)
                  => /\ r.pc \in {"k_close", "done"}
                     /\ r.checkErr = NoErr
                     /\ r.hasConflicts
                     /\ r.conflictDetails = <<unable>>
                     /\ (r.pc = "done" /\ r.op = "check")
                           => /\ r.result.err = NoErr
                              /\ r.result.hasConflicts
                              /\ r.result.details = <<unable>>

C34_Witness ==
    \E p \in Procs :
        /\ inv[p].op = "check" /\ inv[p].pc = "done"
        /\ inv[p].polls = 2 /\ inv[p].reads = 1
        /\ inv[p].result.err = NoErr
        /\ inv[p].result.details = <<UnableDetail>>
        /\ conflicting[<<inv[p].headRef, inv[p].targetBranch>>] = FALSE

====
